---- MODULE Spec2Model ----
(***************************************************************************)
(* viewable: the Viewable base class (build once, body, lifecycle hooks)   *)
(* and the Lifecycle adapter that turns the <Map>, <Unmap> and <Destroy>   *)
(* events of a tkinter widget into on_map / on_remap / on_unmap /          *)
(* on_destroy callbacks.  src/viewable/__init__.py                         *)
(***************************************************************************)
EXTENDS Integers, Sequences, FiniteSets, TLC

\* ---------------------------------------------------------------- bounds
MaxWidgets == 2
MaxLifecycles == 2
MaxBinds == 3
MaxBuildCalls == 2
MaxCalls == 4

\* ------------------------------------------------------------- constants
\* `None`, as the value of Viewable.__body before a body is created.
None == 0

Widgets == 1..MaxWidgets
Lifecycles == 1..MaxLifecycles
Events == {"Map", "Unmap", "Destroy"}

\* event.widget of a notification: the widget itself or one of its descendants
Body == "body"
Child == "child"

\* What an overridden _create_body can hand back: nothing, a new widget not
\* yet shown, a widget that is already shown, a widget that is already gone.
BodyKinds == {"none", "fresh", "shown", "dead"}

\* The callbacks a Lifecycle can be given; each defaults to None.
CallbackNames == {"on_map", "on_remap", "on_unmap", "on_destroy"}

\* What the focus recovery of the destroy handler can meet: the parent holds
\* the focus, the parent has lost it and a widget can take it, the body has
\* no parent, or looking for the widget to focus fails.
FocusStates == {"focused", "unfocused", "no_parent", "no_toplevel",
                "no_descendant", "dead_ancestor"}

\* A funcid returned by widget.bind(): one per call of bind, for the handler
\* of Lifecycle `lc`.  NoId is `None` as a bind id.
NoId == [n |-> 0, ev |-> "None", lc |-> 0]
FuncId(n, ev, lc) == [n |-> n, ev |-> ev, lc |-> lc]

VARIABLES
  built,              \* Viewable.__built
  body,               \* Viewable.__body (None or a widget)
  nCreate,            \* number of executions of _create_body
  nBuild,             \* number of executions of _build
  nCalls,             \* number of calls of build()
  rets,               \* the values build() has returned so far
  nWidgets,           \* widgets created so far (widget w exists in tk iff w <= nWidgets)
  wExists,            \* winfo_exists() of each widget
  wMapped,            \* whether the widget is currently shown
  tkClears,           \* the tkinter in use: whether unbind(sequence, funcid) drops the whole script
  deleted,            \* the funcids whose Tcl command was deleted
  subs,               \* subs[w][e]: the bind script of event e on widget w, a sequence of funcids
  nLc,                \* Lifecycle objects constructed so far
  lc_body,            \* Lifecycle._body
  bind_map_id,        \* Lifecycle._bind_map_id
  bind_unmap_id,      \* Lifecycle._bind_unmap_id
  bind_destroy_id,    \* Lifecycle._bind_destroy_id
  previously_mapped,  \* Lifecycle._previously_mapped
  active,             \* Lifecycle._active
  binds,              \* number of executions of Lifecycle._bind
  calls,              \* the callbacks invoked so far, in order: <<name, lifecycle>>
  callbacks,          \* Lifecycle._on_map, ...: the callbacks each Lifecycle was given
  seen,               \* what each invoked callback found in its Lifecycle
  raising,            \* the hooks of the view that raise when they are called
  focus,              \* the focus situation the destroy of a widget met, in the state it leads to
  err,                \* the exception that escaped the last operation
  bw,                 \* where a call of build_wait() stands
  last                \* the operation that produced this state

viewVars == <<built, body, nCreate, nBuild, nCalls, rets>>
tkVars == <<nWidgets, wExists, wMapped, tkClears>>
xVars == <<raising>>
lcVars == <<subs, nLc, lc_body, bind_map_id, bind_unmap_id, bind_destroy_id,
            previously_mapped, active, binds, calls, deleted, callbacks, seen>>
vars == <<built, body, nCreate, nBuild, nCalls, rets, nWidgets, wExists, wMapped,
          tkClears, deleted, subs, nLc, lc_body, bind_map_id, bind_unmap_id, bind_destroy_id,
          previously_mapped, active, binds, calls, callbacks, seen, raising,
          focus, err, bw, last>>

\* The part of the state the Lifecycle code reads and writes, as one record,
\* so that a handler is a function from state to state.
\* `ret` is the value returned by the last activate() / deactivate().
State == [subs |-> subs, nLc |-> nLc, lc_body |-> lc_body,
          bind_map_id |-> bind_map_id, bind_unmap_id |-> bind_unmap_id,
          bind_destroy_id |-> bind_destroy_id,
          previously_mapped |-> previously_mapped, active |-> active,
          binds |-> binds, calls |-> calls, deleted |-> deleted,
          callbacks |-> callbacks, seen |-> seen, raising |-> raising,
          focus |-> "-", err |-> "none",
          exists |-> wExists, clears |-> tkClears, ret |-> FALSE]

Op(op, ev, src, w, lc, ok) ==
  [op |-> op, ev |-> ev, src |-> src, w |-> w, lc |-> lc, ok |-> ok]

\* ------------------------------------------------------------ tkinter
\* widget.bind(sequence, func, True): appends the handler to the script
TkBind(st, w, e, fid) == [st EXCEPT !.subs[w][e] = Append(@, fid)]

\* widget.unbind(sequence, funcid): without a funcid the whole script of the
\* sequence is dropped.  With one, its Tcl command is deleted and, depending
\* on the tkinter in use, either the whole script of the sequence is dropped
\* or only the handler registered under the funcid.
TkUnbind(st, w, e, fid) ==
  IF fid = NoId
  THEN [st EXCEPT !.subs[w][e] = <<>>]
  ELSE [st EXCEPT !.subs[w][e] = IF st.clears THEN <<>>
                                  ELSE SelectSeq(@, LAMBDA f : f # fid),
                  !.deleted = @ \cup {fid}]

\* ---------------------------------------------------------- Lifecycle
\* Lifecycle.__init__
LifecycleInit(st, l, w, cbs) ==
  [st EXCEPT !.nLc = l,
             !.lc_body[l] = w,
             !.callbacks[l] = cbs,
             !.bind_map_id[l] = NoId,
             !.bind_unmap_id[l] = NoId,
             !.bind_destroy_id[l] = NoId,
             !.previously_mapped[l] = FALSE,
             !.active[l] = FALSE]

\* the ids among _bind_map_id, _bind_unmap_id, _bind_destroy_id that are set
Held(st, l) ==
  {e \in Events :
     CASE e = "Map" -> st.bind_map_id[l] # NoId
       [] e = "Unmap" -> st.bind_unmap_id[l] # NoId
       [] e = "Destroy" -> st.bind_destroy_id[l] # NoId}

\* self._on_map() and the like: calling a callback that was not given (None)
\* is a TypeError; a callback that is called sees the Lifecycle as it is at
\* that moment, and may raise
Call(st, name, l) ==
  IF name \notin st.callbacks[l]
  THEN [st EXCEPT !.err = "TypeError"]
  ELSE [st EXCEPT !.calls = Append(@, <<name, l>>),
                  !.seen = @ \cup {[cb |-> name, lc |-> l,
                                    active |-> st.active[l],
                                    held |-> Held(st, l)]},
                  !.err = IF name \in st.raising THEN "HookError" ELSE @]

bind_map_event(st, l) ==
  LET fid == FuncId(st.binds + 1, "Map", l)
  IN [TkBind(st, st.lc_body[l], "Map", fid) EXCEPT !.bind_map_id[l] = fid]

bind_unmap_event(st, l) ==
  LET fid == FuncId(st.binds + 1, "Unmap", l)
  IN [TkBind(st, st.lc_body[l], "Unmap", fid) EXCEPT !.bind_unmap_id[l] = fid]

bind_destroy_event(st, l) ==
  LET fid == FuncId(st.binds + 1, "Destroy", l)
  IN [TkBind(st, st.lc_body[l], "Destroy", fid) EXCEPT !.bind_destroy_id[l] = fid]

\* Lifecycle._bind
bind(st, l) ==
  [bind_destroy_event(bind_unmap_event(bind_map_event(st, l), l), l)
     EXCEPT !.binds = @ + 1]

\* The dict built in Lifecycle._unbind, as the sequence of its items: a key
\* that occurs more than once (None, when no id is set) keeps the place of
\* its first occurrence and the value of its last.
bind_ids(st, l) ==
  LET items == << <<st.bind_map_id[l], "Map">>,
                  <<st.bind_unmap_id[l], "Unmap">>,
                  <<st.bind_destroy_id[l], "Destroy">> >>
      LastOf(k) == CHOOSE j \in 1..3 :
                     /\ items[j][1] = k
                     /\ \A j2 \in 1..3 : items[j2][1] = k => j2 <= j
      firsts == SelectSeq(<<1, 2, 3>>,
                  LAMBDA i : \A j \in 1..(i - 1) : items[j][1] # items[i][1])
  IN [n \in 1..Len(firsts) |->
        <<items[firsts[n]][1], items[LastOf(items[firsts[n]][1])][2]>>]

RECURSIVE UnbindAll(_, _, _)
UnbindAll(st, w, pairs) ==
  IF pairs = <<>> THEN st
  ELSE UnbindAll(TkUnbind(st, w, Head(pairs)[2], Head(pairs)[1]), w, Tail(pairs))

\* _unbind that forgets the <Destroy> subscription
unbind_keeps_destroy(st, l) ==
  [TkUnbind(TkUnbind(st, st.lc_body[l], "Map", st.bind_map_id[l]),
            st.lc_body[l], "Unmap", st.bind_unmap_id[l])
     EXCEPT !.bind_map_id[l] = NoId,
            !.bind_unmap_id[l] = NoId,
            !.bind_destroy_id[l] = NoId]

\* Lifecycle._unbind
unbind(st, l) ==
  [UnbindAll(st, st.lc_body[l], bind_ids(st, l))
     EXCEPT !.bind_map_id[l] = NoId,
            !.bind_unmap_id[l] = NoId,
            !.bind_destroy_id[l] = NoId]

\* activate that does not ask whether the body still exists
activate_unchecked(st, l) ==
  [bind(st, l) EXCEPT !.active[l] = TRUE, !.ret = TRUE]

\* Lifecycle.activate
activate(st, l) ==
  IF ~st.exists[st.lc_body[l]]
  THEN [st EXCEPT !.ret = FALSE]
  ELSE [bind(st, l) EXCEPT !.active[l] = TRUE, !.ret = TRUE]

\* deactivate that clears the flag and leaves the subscriptions
deactivate_no_unbind(st, l) ==
  IF ~st.exists[st.lc_body[l]]
  THEN [st EXCEPT !.ret = FALSE]
  ELSE [st EXCEPT !.active[l] = FALSE, !.ret = TRUE]

\* Lifecycle.deactivate
deactivate(st, l) ==
  IF ~st.exists[st.lc_body[l]]
  THEN [st EXCEPT !.ret = FALSE]
  ELSE [unbind(st, l) EXCEPT !.active[l] = FALSE, !.ret = TRUE]

\* _handle_map_event that never sets the previously-mapped flag
handle_map_event_noflag(st, l, isBody) ==
  IF ~isBody THEN st
  ELSE IF st.previously_mapped[l]
       THEN Call(st, "on_remap", l)
       ELSE Call(st, "on_map", l)

\* _handle_map_event without the check of event.widget
handle_map_event_nofilter(st, l, isBody) ==
  IF st.previously_mapped[l]
  THEN Call(st, "on_remap", l)
  ELSE [Call(st, "on_map", l) EXCEPT !.previously_mapped[l] = TRUE]

\* Lifecycle._handle_map_event; isBody: event.widget is self._body
handle_map_event(st, l, isBody) ==
  IF ~isBody THEN st
  ELSE IF st.previously_mapped[l]
       THEN Call(st, "on_remap", l)
       ELSE LET c == Call(st, "on_map", l)
            IN IF c.err # "none" THEN c
               ELSE [c EXCEPT !.previously_mapped[l] = TRUE]

\* _handle_unmap_event that resets the previously-mapped flag
handle_unmap_event_resets(st, l, isBody) ==
  IF ~isBody THEN st
  ELSE [Call(st, "on_unmap", l) EXCEPT !.previously_mapped[l] = FALSE]

\* Lifecycle._handle_unmap_event
handle_unmap_event(st, l, isBody) ==
  IF ~isBody THEN st ELSE Call(st, "on_unmap", l)

\* the body of the try in _handle_destroy_event: self._master.focus_get(),
\* then winfo_toplevel().focus_lastfor().focus_force() when nothing has the
\* focus; without a parent self._master is None
focus_attempt(st) ==
  CASE st.focus = "focused" -> st
    [] st.focus = "unfocused" -> st
    [] st.focus = "no_parent" -> [st EXCEPT !.err = "AttributeError"]
    [] OTHER -> [st EXCEPT !.err = "TclError"]

\* the focus recovery without its try
focus_recovery_unguarded(st) == focus_attempt(st)

\* try: ... except Exception: pass
focus_recovery(st) == [focus_attempt(st) EXCEPT !.err = st.err]

\* Lifecycle._handle_destroy_event
handle_destroy_event(st, l, isBody) ==
  IF ~isBody THEN st
  ELSE LET c == Call(unbind(st, l), "on_destroy", l)
       IN IF c.err # "none" THEN c
          ELSE focus_recovery([c EXCEPT !.previously_mapped[l] = FALSE,
                                        !.active[l] = FALSE])

\* the lambda bound to <Destroy> in Lifecycle._bind_destroy_event
destroy_command(st, l, isBody) ==
  IF isBody THEN handle_destroy_event(st, l, isBody) ELSE st

\* implement_lifecycle
implement_lifecycle(st, w, cbs) ==
  LET l == st.nLc + 1 IN activate(LifecycleInit(st, l, w, cbs), l)

\* ------------------------------------------------------ event dispatch
\* tk runs the handlers of the script the event found, in the order bound;
\* a handler whose Tcl command was deleted is an error that ends the script
Handler(st, fid, src) ==
  CASE fid.ev = "Map" -> handle_map_event(st, fid.lc, src = Body)
    [] fid.ev = "Unmap" -> handle_unmap_event(st, fid.lc, src = Body)
    [] fid.ev = "Destroy" -> destroy_command(st, fid.lc, src = Body)

\* an exception that escapes a handler is reported by tkinter and the next
\* handler of the script runs; the first one is kept in err
RunHandler(st, fid, src) ==
  LET r == Handler([st EXCEPT !.err = "none"], fid, src)
  IN IF st.err # "none" THEN [r EXCEPT !.err = st.err] ELSE r

RECURSIVE RunScript(_, _, _)
RunScript(st, script, src) ==
  IF script = <<>> \/ Head(script) \in st.deleted THEN st
  ELSE RunScript(RunHandler(st, Head(script), src), Tail(script), src)

Dispatch(st, w, e, src) == RunScript(st, st.subs[w][e], src)

\* the primed Lifecycle state is the record st
Apply(st) ==
  /\ subs' = st.subs
  /\ nLc' = st.nLc
  /\ lc_body' = st.lc_body
  /\ bind_map_id' = st.bind_map_id
  /\ bind_unmap_id' = st.bind_unmap_id
  /\ bind_destroy_id' = st.bind_destroy_id
  /\ previously_mapped' = st.previously_mapped
  /\ active' = st.active
  /\ binds' = st.binds
  /\ calls' = st.calls
  /\ deleted' = st.deleted
  /\ callbacks' = st.callbacks
  /\ seen' = st.seen
  /\ err' = st.err
  /\ focus' = st.focus

\* ------------------------------------------------------------- Viewable
InitCommon ==
  /\ built = FALSE
  /\ body = None
  /\ nCreate = 0
  /\ nBuild = 0
  /\ nCalls = 0
  /\ rets = {}
  /\ nWidgets = 0
  /\ wExists = [w \in Widgets |-> FALSE]
  /\ wMapped = [w \in Widgets |-> FALSE]
  /\ tkClears \in BOOLEAN
  /\ deleted = {}
  /\ subs = [w \in Widgets |-> [e \in Events |-> <<>>]]
  /\ nLc = 0
  /\ lc_body = [l \in Lifecycles |-> None]
  /\ bind_map_id = [l \in Lifecycles |-> NoId]
  /\ bind_unmap_id = [l \in Lifecycles |-> NoId]
  /\ bind_destroy_id = [l \in Lifecycles |-> NoId]
  /\ previously_mapped = [l \in Lifecycles |-> FALSE]
  /\ active = [l \in Lifecycles |-> FALSE]
  /\ binds = 0
  /\ calls = <<>>
  /\ callbacks = [l \in Lifecycles |-> {}]
  /\ seen = {}
  /\ focus = "-"
  /\ err = "none"
  /\ bw = "idle"
  /\ last = Op("init", "-", "-", 0, 0, TRUE)

\* a view whose hooks return
Init == InitCommon /\ raising = {}

\* the branch of build() taken when the view is built already
BuildAgain ==
  /\ rets' = rets \cup {body}
  /\ last' = Op("build", "again", "-", body, 0, TRUE)
  /\ err' = "none"
  /\ focus' = "-"
  /\ UNCHANGED <<built, body, nCreate, nBuild, tkVars, lcVars, xVars>>

\* self._build(), a hook of the view
build_hook(st) ==
  IF "_build" \in st.raising THEN [st EXCEPT !.err = "HookError"] ELSE st

\* the branch of build() that builds; kind: what _create_body returns
BuildFirst(kind) ==
  LET w == IF kind = "none" THEN None ELSE nWidgets + 1
      ex == IF w = None THEN wExists ELSE [wExists EXCEPT ![w] = (kind # "dead")]
      st == build_hook(
              IF w = None THEN State
              ELSE implement_lifecycle([State EXCEPT !.exists = ex], w,
                                       CallbackNames))
      ok == st.err = "none"
  IN /\ nCreate' = nCreate + 1
     /\ body' = w
     /\ nWidgets' = IF w = None THEN nWidgets ELSE w
     /\ wExists' = ex
     /\ wMapped' = IF w = None THEN wMapped
                   ELSE [wMapped EXCEPT ![w] = (kind = "shown")]
     /\ Apply(st)
     /\ UNCHANGED <<tkClears, xVars>>
     /\ nBuild' = nBuild + 1
     /\ built' = (built \/ ok)
     /\ rets' = IF ok THEN rets \cup {w} ELSE rets
     /\ last' = Op("build", kind, "-", w, 0, ok)

\* build() that does not look at __built
Build_rebuilds(kind) ==
  /\ nCalls < MaxBuildCalls
  /\ nCalls' = nCalls + 1
  /\ kind # "none" =>
       nWidgets < MaxWidgets /\ nLc < MaxLifecycles /\ binds < MaxBinds
  /\ BuildFirst(kind)

\* Viewable.build
Build(kind) ==
  /\ nCalls < MaxBuildCalls
  /\ nCalls' = nCalls + 1
  /\ IF built
     THEN BuildAgain
     ELSE /\ kind # "none" =>
               nWidgets < MaxWidgets /\ nLc < MaxLifecycles /\ binds < MaxBinds
          /\ BuildFirst(kind)

\* a call of activate() by a holder of the Lifecycle
Activate(l) ==
  /\ l <= nLc
  /\ binds < MaxBinds
  /\ LET st == activate(State, l)
     IN /\ Apply(st)
        /\ last' = Op("activate", "-", "-", lc_body[l], l, st.ret)
  /\ UNCHANGED <<viewVars, tkVars, xVars, bw>>

\* a call of deactivate() by a holder of the Lifecycle
Deactivate(l) ==
  /\ l <= nLc
  /\ LET st == deactivate(State, l)
     IN /\ Apply(st)
        /\ last' = Op("deactivate", "-", "-", lc_body[l], l, st.ret)
  /\ UNCHANGED <<viewVars, tkVars, xVars, bw>>

\* ------------------------------------------------------------- toolkit
\* the widget becomes visible: tk delivers <Map> for it
Show(w) ==
  /\ w <= nWidgets /\ wExists[w] /\ ~wMapped[w]
  /\ Len(calls) < MaxCalls
  /\ wMapped' = [wMapped EXCEPT ![w] = TRUE]
  /\ Apply(Dispatch(State, w, "Map", Body))
  /\ last' = Op("notify", "Map", Body, w, 0, TRUE)
  /\ UNCHANGED <<viewVars, nWidgets, wExists, tkClears, xVars, bw>>

\* the widget is hidden: tk delivers <Unmap> for it
Hide(w) ==
  /\ w <= nWidgets /\ wExists[w] /\ wMapped[w]
  /\ Len(calls) < MaxCalls
  /\ wMapped' = [wMapped EXCEPT ![w] = FALSE]
  /\ Apply(Dispatch(State, w, "Unmap", Body))
  /\ last' = Op("notify", "Unmap", Body, w, 0, TRUE)
  /\ UNCHANGED <<viewVars, nWidgets, wExists, tkClears, xVars, bw>>

\* the widget is destroyed: winfo_exists() is false from the start of the
\* destruction, and tk delivers <Destroy> for it
\* build_wait without the wait_window() call
build_wait_nowait(b, ex, e) ==
  IF e # "none" \/ b = None THEN "raised" ELSE "returned"

\* Viewable.build_wait after its build(): where it stands, given the body,
\* winfo_exists() and the exception build() let out.  wait_window() blocks
\* until the body is destroyed; a body that is None has no winfo_exists.
build_wait(b, ex, e) ==
  IF e # "none" \/ b = None THEN "raised"
  ELSE IF ex[b] THEN "waiting" ELSE "returned"

\* wait_window(body) returns when the body is destroyed
wait_window(pc, b, w) == IF pc = "waiting" /\ w = b THEN "returned" ELSE pc

DestroyWidget(w) ==
  /\ w <= nWidgets /\ wExists[w]
  /\ Len(calls) < MaxCalls
  /\ wExists' = [wExists EXCEPT ![w] = FALSE]
  /\ wMapped' = [wMapped EXCEPT ![w] = FALSE]
  /\ \E f \in FocusStates :
       Apply(Dispatch([State EXCEPT !.exists = wExists', !.focus = f],
                      w, "Destroy", Body))
  /\ bw' = wait_window(bw, body, w)
  /\ last' = Op("notify", "Destroy", Body, w, 0, TRUE)
  /\ UNCHANGED <<viewVars, nWidgets, tkClears, raising>>

\* a destroy notification for a widget that is gone already
ReissueDestroy(w) ==
  /\ w <= nWidgets /\ ~wExists[w]
  /\ Len(calls) < MaxCalls
  /\ Apply(Dispatch([State EXCEPT !.focus = "dead_ancestor"], w, "Destroy", Body))
  /\ last' = Op("renotify", "Destroy", Body, w, 0, TRUE)
  /\ UNCHANGED <<viewVars, tkVars, xVars, bw>>

\* an event of a descendant of the widget that reaches the widget's handlers
ChildEvent(w, e) ==
  /\ w <= nWidgets /\ wExists[w]
  /\ Len(calls) < MaxCalls
  /\ Apply(Dispatch(State, w, e, Child))
  /\ last' = Op("notify", e, Child, w, 0, TRUE)
  /\ UNCHANGED <<viewVars, tkVars, xVars, bw>>

\* activate() called on a Lifecycle that is not active
ActivateIdle(l) == ~active[l] /\ Activate(l)

\* a call of build()
BuildCall(kind) == Build(kind) /\ UNCHANGED bw

\* Viewable.build_wait
BuildWait(kind) ==
  /\ bw = "idle"
  /\ Build(kind)
  /\ bw' = build_wait(body', wExists', err')

\* view.destroy(): Viewable defines no destroy, the call is an AttributeError
ViewDestroy ==
  /\ err' = "AttributeError"
  /\ focus' = "-"
  /\ last' = Op("view_destroy", "-", "-", body, 0, FALSE)
  /\ UNCHANGED <<viewVars, tkVars, lcVars, xVars, bw>>

\* Lifecycle(body, ...) constructed by hand on a widget, with the callbacks cbs
NewLifecycle(w, cbs) ==
  /\ w <= nWidgets /\ nLc < MaxLifecycles
  /\ Apply(LifecycleInit(State, nLc + 1, w, cbs))
  /\ last' = Op("new", "-", "-", w, nLc + 1, TRUE)
  /\ UNCHANGED <<viewVars, tkVars, xVars, bw>>

\* ------------------------------------------------------- specification
\* The view is built with build(); the Lifecycle it gets is activated by a
\* holder only while it is not active.
Next ==
  \/ \E kind \in BodyKinds : BuildCall(kind)
  \/ \E kind \in BodyKinds : BuildWait(kind)
  \/ \E l \in Lifecycles : ActivateIdle(l)
  \/ \E l \in Lifecycles : Deactivate(l)
  \/ \E w \in Widgets : Show(w)
  \/ \E w \in Widgets : Hide(w)
  \/ \E w \in Widgets : DestroyWidget(w)
  \/ \E w \in Widgets : ReissueDestroy(w)
  \/ \E w \in Widgets, e \in Events : ChildEvent(w, e)

Spec == Init /\ [][Next]_vars

\* The view used as its docstring says: destroyed with view.destroy().
NextView == Next \/ ViewDestroy
SpecView == Init /\ [][NextView]_vars

\* A view whose hooks may raise: one of them does, at every call.
Hooks == {"_build"} \cup CallbackNames
InitRaise == InitCommon /\ \E h \in Hooks : raising = {h}
NextRaise ==
  \/ \E kind \in BodyKinds : BuildCall(kind)
  \/ \E w \in Widgets : Show(w)
  \/ \E w \in Widgets : Hide(w)
  \/ \E w \in Widgets : DestroyWidget(w)
SpecRaise == InitRaise /\ [][NextRaise]_vars

\* Lifecycle used directly: a further binding made by hand on the body, with
\* all four callbacks, and activate() called in any state.
NextDirect ==
  \/ \E kind \in BodyKinds : BuildCall(kind)
  \/ \E w \in Widgets : NewLifecycle(w, CallbackNames)
  \/ \E l \in Lifecycles : Activate(l)
  \/ \E l \in Lifecycles : Deactivate(l)
  \/ \E w \in Widgets : Show(w)
  \/ \E w \in Widgets : Hide(w)
  \/ \E w \in Widgets : DestroyWidget(w)
SpecDirect == Init /\ [][NextDirect]_vars

\* A binding made by hand with any of the four callbacks left out.
NextOptional ==
  \/ \E kind \in BodyKinds : BuildCall(kind)
  \/ \E w \in Widgets, cbs \in SUBSET CallbackNames : NewLifecycle(w, cbs)
  \/ \E l \in Lifecycles : ActivateIdle(l)
  \/ \E w \in Widgets : Show(w)
  \/ \E w \in Widgets : Hide(w)
  \/ \E w \in Widgets : DestroyWidget(w)
SpecOptional == Init /\ [][NextOptional]_vars

\* --------------------------------------------------------------- claims
CountIn(seq, name, l) == Cardinality({i \in 1..Len(seq) : seq[i] = <<name, l>>})
Count(name, l) == CountIn(calls, name, l)
Made(l) == l \in Lifecycles /\ l <= nLc
\* the step that leads to the next state is the notification e of widget w,
\* with event.widget the widget itself (src = Body) or a descendant
Notified(e, src, w) ==
  last'.op = "notify" /\ last'.ev = e /\ last'.src = src /\ last'.w = w

\* C1: whatever the sequence of build() calls on a view, the build routine
\* (_create_body and _build) has run exactly once and every call has
\* returned the one body of the view.
C1_BuildOnce ==
  nCalls >= 1 =>
    /\ nBuild = 1 /\ nCreate = 1
    /\ rets = {body}
    /\ last.op = "build" => last.ok

C1_Witness ==
  nCalls >= 2 /\ last.op = "build" /\ last.ev = "again" /\ body # None

\* C2: a shown notification for the body of an active binding invokes on_map
\* when on_map was never invoked and on_remap, once, otherwise; on_map is
\* never invoked a second time.
C2_MapOnceThenRemap ==
  [][\A l \in Lifecycles :
       /\ CountIn(calls', "on_map", l) <= 1
       /\ (Made(l) /\ active[l] /\ Notified("Map", Body, lc_body[l])) =>
            calls' = Append(calls, IF Count("on_map", l) = 0
                                   THEN <<"on_map", l>>
                                   ELSE <<"on_remap", l>>)]_vars

C2_Witness ==
  /\ last.op = "notify" /\ last.ev = "Map" /\ last.src = Body
  /\ \E l \in Lifecycles :
       /\ Made(l) /\ active[l] /\ lc_body[l] = last.w
       /\ Count("on_map", l) = 1
       /\ calls[Len(calls)] = <<"on_remap", l>>

\* C3: on_destroy is invoked at most once for a binding, also when the
\* destroy notification of its body is issued again.
C3_DestroyOnce ==
  \A l \in Lifecycles : Count("on_destroy", l) <= 1

C3_Witness ==
  /\ last.op = "renotify" /\ last.ev = "Destroy"
  /\ \E l \in Lifecycles :
       Made(l) /\ lc_body[l] = last.w /\ Count("on_destroy", l) = 1

\* C4: once the destroy notification of the body has been handled the
\* binding is inactive, holds no subscription, has its previously-mapped
\* flag reset, and an activate() that follows returns false.
C4_DestroyTerminal ==
  \A l \in Lifecycles :
    (Made(l) /\ Count("on_destroy", l) >= 1) =>
      /\ ~active[l]
      /\ ~previously_mapped[l]
      /\ bind_map_id[l] = NoId
      /\ bind_unmap_id[l] = NoId
      /\ bind_destroy_id[l] = NoId
      /\ \A e \in Events : \A i \in 1..Len(subs[lc_body[l]][e]) :
           subs[lc_body[l]][e][i].lc # l
      /\ (last.op = "activate" /\ last.lc = l) => ~last.ok

C4_Witness ==
  /\ last.op = "activate" /\ ~last.ok
  /\ Made(last.lc) /\ Count("on_destroy", last.lc) = 1

\* C5: a shown, hidden or destroyed notification whose widget is a
\* descendant of the body invokes no callback and changes nothing of the
\* binding.
C5_ForeignEventIgnored ==
  [][\A w \in Widgets, e \in Events :
       Notified(e, Child, w) =>
         UNCHANGED <<calls, active, previously_mapped, bind_map_id,
                     bind_unmap_id, bind_destroy_id, subs>>]_vars

C5_Witness ==
  /\ last.op = "notify" /\ last.src = Child /\ last.ev = "Destroy"
  /\ \E l \in Lifecycles :
       Made(l) /\ active[l] /\ lc_body[l] = last.w /\ previously_mapped[l]

\* C6: a build() whose build routine yields no body raises MissingBodyError
\* and leaves the view not built.
C6_MissingBodyRaises ==
  (last.op = "build" /\ body = None) => (~last.ok /\ ~built)

\* C7: when the body is shown already at the time build() activates its
\* binding, on_map has been invoked when build() returns.
C7_MapAtActivation ==
  \A l \in Lifecycles :
    (Made(l) /\ last.op = "build" /\ last.ev = "shown" /\ last.w = lc_body[l]) =>
      Count("on_map", l) >= 1

\* C8: a hidden notification for the body of an active binding invokes
\* on_unmap and leaves the previously-mapped flag as it is; the shown
\* notification that follows an on_unmap, after on_map was invoked, invokes
\* on_remap.
C8_UnmapKeepsFlag ==
  [][\A l \in Lifecycles :
       (Made(l) /\ active[l]) =>
         /\ Notified("Unmap", Body, lc_body[l]) =>
              /\ calls' = Append(calls, <<"on_unmap", l>>)
              /\ previously_mapped' = previously_mapped
         /\ ( /\ Notified("Map", Body, lc_body[l])
              /\ Count("on_map", l) >= 1
              /\ Len(calls) >= 1
              /\ calls[Len(calls)] = <<"on_unmap", l>> ) =>
              calls' = Append(calls, <<"on_remap", l>>)]_vars

C8_Witness ==
  /\ last.op = "notify" /\ last.ev = "Map"
  /\ Len(calls) >= 3
  /\ \E l \in Lifecycles :
       /\ calls[Len(calls) - 2] = <<"on_map", l>>
       /\ calls[Len(calls) - 1] = <<"on_unmap", l>>
       /\ calls[Len(calls)] = <<"on_remap", l>>

\* C9: deactivate() on an active binding whose body exists leaves it
\* inactive and invokes nothing, and no notification of the body invokes a
\* callback of a binding that is not active.
C9_DeactivateSilences ==
  [][\A l \in Lifecycles :
       Made(l) =>
         /\ ( /\ last'.op = "deactivate" /\ last'.lc = l
              /\ active[l] /\ wExists[lc_body[l]] ) =>
              (last'.ok /\ ~active'[l] /\ calls' = calls)
         /\ ( /\ ~active[l]
              /\ last'.op \in {"notify", "renotify"}
              /\ last'.w = lc_body[l] ) =>
              calls' = calls]_vars

C9_Witness ==
  /\ last.op = "notify" /\ last.ev = "Destroy" /\ last.src = Body
  /\ \E l \in Lifecycles :
       /\ Made(l) /\ lc_body[l] = last.w
       /\ bind_destroy_id[l] = NoId /\ ~active[l]
       /\ Count("on_map", l) = 1
       /\ Count("on_destroy", l) = 0

\* C10: an on_unmap is preceded by an on_map or on_remap of the same
\* binding, and nothing follows an on_destroy.
C10_CallbackOrder ==
  \A l \in Lifecycles : \A i \in 1..Len(calls) :
    /\ calls[i] = <<"on_unmap", l>> =>
         \E j \in 1..(i - 1) : calls[j] \in {<<"on_map", l>>, <<"on_remap", l>>}
    /\ calls[i] = <<"on_destroy", l>> =>
         \A j \in (i + 1)..Len(calls) : calls[j][2] # l

\* C11: handling the destroy notification of the body of an active binding
\* never raises because of focus recovery: whatever the focus state of the
\* parent, on_destroy is invoked, the binding ends inactive with its flag
\* reset, and no error escapes the handler.
C11_FocusRecoverySwallowed ==
  [][\A l \in Lifecycles :
       ( /\ Made(l) /\ active[l]
         /\ Notified("Destroy", Body, lc_body[l])
         /\ focus' \in FocusStates ) =>
           /\ err' = "none"
           /\ calls' = Append(calls, <<"on_destroy", l>>)
           /\ ~active'[l] /\ ~previously_mapped'[l]]_vars

C11_Witness ==
  /\ last.op = "notify" /\ last.ev = "Destroy" /\ last.src = Body
  /\ focus = "no_descendant" /\ err = "none"
  /\ \E l \in Lifecycles :
       /\ Made(l) /\ lc_body[l] = last.w
       /\ ~active[l] /\ bind_destroy_id[l] = NoId
       /\ Count("on_destroy", l) = 1

\* C12: Viewable offers destroy(): the call returns without error, and on a
\* view whose body is present the body is destroyed by it and the on_destroy
\* hook of the view's binding has been invoked exactly once.
C12_ViewDestroy ==
  last.op = "view_destroy" =>
    /\ err = "none"
    /\ last.w # None =>
         /\ ~wExists[last.w]
         /\ \A l \in Lifecycles :
              (Made(l) /\ lc_body[l] = last.w) => Count("on_destroy", l) = 1

\* C13: the body of a view is assigned at most once over the life of the
\* view, whatever the build() calls made, including calls whose build
\* routine raises and calls made after the body was destroyed: every widget
\* that _create_body made for the view is the body of the view.
C13_BodyAssignedOnce ==
  \A w \in Widgets : w <= nWidgets => body = w

\* C14: build_wait() builds the view and blocks until the body is
\* destroyed: while it waits the body exists, and it has returned (the
\* body) only when the body no longer exists, also when the body was
\* already gone right after build.  It raises only on a view without body.
C14_BuildWaitBlocks ==
  /\ bw = "waiting" => (body # None /\ wExists[body])
  /\ bw = "returned" => (body # None /\ ~wExists[body] /\ body \in rets)
  /\ bw = "raised" => (built /\ body = None)

C14_Witness ==
  /\ bw = "returned"
  /\ last.op = "notify" /\ last.ev = "Destroy" /\ last.src = Body
  /\ last.w = body

\* number of callbacks of binding l in a sequence of calls
CallsOf(seq, l) == Cardinality({i \in 1..Len(seq) : seq[i][2] = l})
\* l is the only binding on its body
Alone(l) ==
  \A l2 \in Lifecycles : (Made(l2) /\ l2 # l) => lc_body[l2] # lc_body[l]

\* C15: activate() on a binding that is already active adds no second
\* subscription: every shown, hidden or destroyed notification for the body
\* of an active binding invokes exactly one callback of it, and after a
\* deactivate() no subscription of the binding is left on the body.
C15_NoRebinding ==
  [][\A l \in Lifecycles :
       (Made(l) /\ Alone(l) /\ active[l]) =>
         /\ ( /\ last'.op = "notify" /\ last'.src = Body
              /\ last'.w = lc_body[l] ) =>
              CallsOf(calls', l) = CallsOf(calls, l) + 1
         /\ ( last'.op = "deactivate" /\ last'.lc = l /\ last'.ok ) =>
              \A e \in Events : \A i \in 1..Len(subs'[lc_body[l]][e]) :
                subs'[lc_body[l]][e][i].lc # l]_vars

\* C16: a binding made with any subset of the four callbacks handles every
\* shown, hidden and destroyed notification of its body without error, and
\* the state changes of the transition still take place: the flag is set by
\* a show; a destroy clears the subscriptions and both flags.
C16_OptionalCallbacks ==
  [][\A l \in Lifecycles :
       ( /\ Made(l) /\ active[l]
         /\ last'.op = "notify" /\ last'.src = Body
         /\ last'.w = lc_body[l] ) =>
           /\ err' = "none"
           /\ \A i \in 1..Len(calls') : calls'[i][1] \in callbacks[calls'[i][2]]
           /\ last'.ev = "Map" => previously_mapped'[l]
           /\ last'.ev = "Destroy" =>
                /\ Held(State, l)' = {}
                /\ ~previously_mapped'[l] /\ ~active'[l]]_vars

\* the subscriptions of binding l for event e in the scripts sb of the widgets
SubsOf(sb, l, e) ==
  {sb[lc_body[l]][e][i] : i \in {j \in 1..Len(sb[lc_body[l]][e]) :
                                  sb[lc_body[l]][e][j].lc = l}}

\* C17: deactivate() on a binding, whether active, never activated or
\* already deactivated, removes only the subscriptions of that binding:
\* every other binding keeps the subscriptions it has on the body.
C17_DeactivateOwnOnly ==
  [][\A l \in Lifecycles : \A l2 \in Lifecycles :
       ( /\ Made(l) /\ Made(l2) /\ l2 # l
         /\ last'.op = "deactivate" /\ last'.lc = l ) =>
           \A e \in Events : SubsOf(subs', l2, e) = SubsOf(subs, l2, e)]_vars

\* C18: in every state a caller can observe (between two operations) and in
\* every state a running hook has observed, the active flag of a binding is
\* true exactly when its three handles are set and false exactly when all
\* three are cleared, also when a hook raises.
C18_ActiveIffHandles ==
  /\ \A l \in Lifecycles :
       Made(l) =>
         /\ active[l] <=> (Held(State, l) = Events)
         /\ ~active[l] <=> (Held(State, l) = {})
  /\ \A o \in seen :
       /\ o.active <=> (o.held = Events)
       /\ ~o.active <=> (o.held = {})

====
